---- MODULE Spec2Model ----
(***************************************************************************)
(* A state-machine model of src/bot.py: the per-user settings registry,    *)
(* the pending-timezone set, the APScheduler job store, and one action per *)
(* handler.  Handlers of python-telegram-bot run one at a time and every   *)
(* handler does all of its reads and writes of the shared state in one     *)
(* synchronous block (between two awaits), so a handler is one atomic      *)
(* action whose external calls (acknowledge, send/edit, text generation,   *)
(* add_job) succeed or raise nondeterministically.                         *)
(***************************************************************************)
EXTENDS Integers, Sequences, FiniteSets, TLC

\* ---------------------------------------------------------------- bounds

\* The scheduler hands out at most MaxJobs job identifiers in one run.
MaxJobs == 6

\* Free-text messages are at most MaxTextLen tokens long.
MaxTextLen == 2

\* At most MaxSteps taps are recorded between two /start commands.
MaxSteps == 5

\* At most MaxInFlight routines are suspended at an await at a time.
MaxInFlight == 2

\* ------------------------------------------------------- program domains

Users == {"u1"}

Languages == {"ru", "en"}

KnowledgeLevels == {1, 2, 3}

Styles == {"friend", "story", "rabbi"}

SendTimes == {"morning", "day", "evening", "anytime"}

\* Names known to the timezone database (those ZoneInfo accepts).
TZDatabase ==
    {"Asia/Jerusalem", "Europe/Moscow", "Europe/Berlin", "Asia/Dubai",
     "America/New_York"}

\* A name the timezone database does not know.
BadZones == {"Mars/Nowhere"}

JobNames == {"sunday", "midweek", "friday"}

\* An empty dict.
EmptyDict == [k \in {} |-> 0]

Range(f) == {f[k] : k \in DOMAIN f}

\* d[k] = v on a dict.
Put(d, k, v) == [x \in DOMAIN d \cup {k} |-> IF x = k THEN v ELSE d[x]]

\* ------------------------------------------------------------- the state

VARIABLES
    USER_SETTINGS,          \* dict user id -> UserSettings
    TIMEZONE_AWAIT_USERS,   \* users typing their timezone as text
    scheduler,              \* the job store: dict job id -> job
    job_seq,                \* job identifiers handed out so far
    issued_start,           \* history: users whose /start was handled
    tapped_absent,          \* history: users whose tap found no record
    last,                   \* the event handled last and what it did
    taps,                   \* history: the steps of a guided onboarding
    running                 \* the routines suspended at an await

vars == <<USER_SETTINGS, TIMEZONE_AWAIT_USERS, scheduler, job_seq,
          issued_start, tapped_absent, last, taps, running>>

\* UserSettings.__init__ with its defaults.
UserSettings(user_id) ==
    [user_id |-> user_id, language |-> "ru", level |-> 1, style |-> "friend",
     send_time |-> "anytime", timezone |-> "Asia/Dubai", job_ids |-> EmptyDict]

NoData == [prefix |-> "", rest |-> ""]

\* What a handler did: the messages it sent or tried to send, in order, the
\* generation calls it made, and whether an exception left it (exc).  data
\* is the payload a tap handler read, text the message text a text handler
\* read.  logged: a delivery function caught a failure, logged it and
\* dropped it.
Event(op, user, data, msgs, gen, exc) ==
    [op |-> op, user |-> user, data |-> data, text |-> <<>>, msgs |-> msgs,
     gen |-> gen, exc |-> exc, logged |-> FALSE]

TextEvent(user, text, msgs, exc) ==
    [op |-> "text", user |-> user, data |-> NoData, text |-> text,
     msgs |-> msgs, gen |-> <<>>, exc |-> exc, logged |-> FALSE]

Init ==
    /\ USER_SETTINGS = EmptyDict
    /\ TIMEZONE_AWAIT_USERS = {}
    /\ scheduler = EmptyDict
    /\ job_seq = 0
    /\ issued_start = {}
    /\ tapped_absent = {}
    /\ last = Event("init", "", NoData, <<>>, <<>>, FALSE)
    /\ taps = <<>>
    /\ running = {}

\* ------------------------------------------------------- pure functions

\* Mutant: the evening slot is an hour late.
map_send_time_late_evening(send_time) ==
    IF send_time = "morning" THEN <<9, 0>>
    ELSE IF send_time = "day" THEN <<13, 0>>
    ELSE IF send_time = "evening" THEN <<21, 0>>
    ELSE <<12, 0>>

\* map_send_time_to_hour_minute: <<hour, minute>>.
map_send_time_to_hour_minute(send_time) ==
    IF send_time = "morning" THEN <<9, 0>>
    ELSE IF send_time = "day" THEN <<13, 0>>
    ELSE IF send_time = "evening" THEN <<20, 0>>
    ELSE <<12, 0>>

get_current_parsha == "Vayishlach"

\* ZoneInfo(key) returns (TRUE) or raises (FALSE).
ZoneInfoOK(key) == key \in TZDatabase

\* A text message is a sequence of tokens: a blank or a word.
TextTokens == {" ", "Asia/Jerusalem", "Mars/Nowhere"}

RECURSIVE lstrip(_)
lstrip(t) ==
    IF t # <<>> /\ Head(t) = " " THEN lstrip(Tail(t)) ELSE t

RECURSIVE rstrip(_)
rstrip(t) ==
    IF t # <<>> /\ t[Len(t)] = " " THEN rstrip(SubSeq(t, 1, Len(t) - 1)) ELSE t

\* Mutant: the text is used as typed.
unstripped(t) == t

\* str.strip(): leading and trailing blanks removed, inner ones kept.
strip(t) == rstrip(lstrip(t))

\* The string a token sequence spells: a single word is that word, the
\* empty text is "", and anything longer is no name of the database.
Spelled(t) ==
    IF t = <<>> THEN ""
    ELSE IF Len(t) = 1 THEN t[1]
    ELSE "(several tokens)"

\* Mutant: the fallback branch reuses the sunday_main directive.
build_user_prompt_sunday_fallback(language, level, style, parsha_name, mode) ==
    [lang_prefix |-> IF language = "ru" THEN "write in Russian"
                     ELSE "write in clear, simple English",
     parsha_name |-> parsha_name,
     level |-> level,
     style |-> style,
     mode |-> mode,
     core |-> IF mode = "midweek_detail" THEN "one interesting moment explained"
              ELSE IF mode = "friday_toast" THEN "exactly three sentences"
              ELSE IF mode = "onboarding_now" THEN "say it usually comes on Sundays, then explain as on Sunday"
              ELSE "main explanation: events, meaning, modern reading"]

\* build_user_prompt: the fields of the prompt and its core directive.
build_user_prompt(language, level, style, parsha_name, mode) ==
    [lang_prefix |-> IF language = "ru" THEN "write in Russian"
                     ELSE "write in clear, simple English",
     parsha_name |-> parsha_name,
     level |-> level,
     style |-> style,
     mode |-> mode,
     core |-> IF mode = "sunday_main" THEN "main explanation: events, meaning, modern reading"
              ELSE IF mode = "midweek_detail" THEN "one interesting moment explained"
              ELSE IF mode = "friday_toast" THEN "exactly three sentences"
              ELSE IF mode = "onboarding_now" THEN "say it usually comes on Sundays, then explain as on Sunday"
              ELSE "explain the portion as in the Sunday version"]

\* generate_parsha_text: the one chat-completion request it makes.
generate_parsha_text(settings, mode, ok) ==
    [prompt |-> build_user_prompt(settings.language, settings.level,
                                  settings.style, get_current_parsha, mode),
     ok |-> ok]

\* ------------------------------------------------------------- messages

Msg(kind, lang) == [kind |-> kind, lang |-> lang]

\* A text localized by `settings.language == Language.RU`.
Localized(kind, settings) ==
    Msg(kind, IF settings.language = "ru" THEN "ru" ELSE "en")

\* The text a successful generation returned.
Generated(settings) == Msg("generated", settings.language)

\* ------------------------------------------------------------ scheduling

sunday_job(u, hm, tz) ==
    [func |-> "send_sunday_parsha_for_user", user |-> u, day_of_week |-> "sun",
     hour |-> hm[1], minute |-> hm[2], timezone |-> tz]

midweek_job(u, hm, tz) ==
    [func |-> "send_midweek_detail_for_user", user |-> u, day_of_week |-> "wed",
     hour |-> hm[1], minute |-> hm[2], timezone |-> tz]

friday_job(u, hm, tz) ==
    [func |-> "send_friday_toast_for_user", user |-> u, day_of_week |-> "fri",
     hour |-> hm[1], minute |-> hm[2], timezone |-> tz]

\* Mutant: every job of the scheduler is cancelled (remove_all_jobs).
remove_all_jobs(sched, job_ids) == [j \in {} |-> sched[j]]

\* Mutant: the old jobs are not cancelled.
remove_no_jobs(sched, job_ids) == sched

\* scheduler.remove_job for every recorded id; a missing id is swallowed.
remove_jobs(sched, job_ids) ==
    [j \in DOMAIN sched \ Range(job_ids) |-> sched[j]]

\* Mutant: job_ids is not emptied before the jobs are added, so a call that
\* raises leaves the ids of the jobs it has just removed.
schedule_jobs_keeping_ids(settings, sched, seq, n) ==
    LET removed == remove_jobs(sched, settings.job_ids)
        hm == map_send_time_to_hour_minute(settings.send_time)
        tz == IF ZoneInfoOK(settings.timezone) THEN settings.timezone
              ELSE "Asia/Dubai"
        u == settings.user_id
        new == [i \in 1..n |->
                  IF i = 1 THEN sunday_job(u, hm, tz)
                  ELSE IF i = 2 THEN midweek_job(u, hm, tz)
                  ELSE friday_job(u, hm, tz)]
        added == [j \in DOMAIN removed \cup {seq + i : i \in 1..n} |->
                    IF j \in DOMAIN removed THEN removed[j] ELSE new[j - seq]]
        ids == IF n = 3
               THEN [k \in JobNames |->
                       IF k = "sunday" THEN seq + 1
                       ELSE IF k = "midweek" THEN seq + 2
                       ELSE seq + 3]
               ELSE settings.job_ids
    IN  [settings |-> [settings EXCEPT !.timezone = tz, !.job_ids = ids],
         scheduler |-> added,
         job_seq |-> seq + n,
         raised |-> n < 3]

\* schedule_jobs_for_user on `settings` with job store `sched`, `seq`
\* identifiers handed out so far; the first `n` add_job calls return and the
\* next one raises (n = 3: none raises).  The result is what the call
\* leaves: the settings, the job store, the identifiers handed out, and
\* whether it raised.
schedule_jobs_for_user(settings, sched, seq, n) ==
    LET removed == remove_jobs(sched, settings.job_ids)
        hm == map_send_time_to_hour_minute(settings.send_time)
        tz == IF ZoneInfoOK(settings.timezone) THEN settings.timezone
              ELSE "Asia/Dubai"
        u == settings.user_id
        new == [i \in 1..n |->
                  IF i = 1 THEN sunday_job(u, hm, tz)
                  ELSE IF i = 2 THEN midweek_job(u, hm, tz)
                  ELSE friday_job(u, hm, tz)]
        added == [j \in DOMAIN removed \cup {seq + i : i \in 1..n} |->
                    IF j \in DOMAIN removed THEN removed[j] ELSE new[j - seq]]
        ids == IF n = 3
               THEN [k \in JobNames |->
                       IF k = "sunday" THEN seq + 1
                       ELSE IF k = "midweek" THEN seq + 2
                       ELSE seq + 3]
               ELSE EmptyDict
    IN  [settings |-> [settings EXCEPT !.timezone = tz, !.job_ids = ids],
         scheduler |-> added,
         job_seq |-> seq + n,
         raised |-> n < 3]

\* -------------------------------------------------------------- commands

\* Mutant: /start keeps the record of a user who has one.
start_keeping_record(u) ==
    \E sent \in BOOLEAN :
        /\ USER_SETTINGS' = IF u \in DOMAIN USER_SETTINGS THEN USER_SETTINGS
                            ELSE Put(USER_SETTINGS, u, UserSettings(u))
        /\ issued_start' = issued_start \cup {u}
        /\ last' = Event("start", u, NoData, <<Msg("greeting", "ru")>>, <<>>, ~sent)
        /\ UNCHANGED <<TIMEZONE_AWAIT_USERS, scheduler, job_seq, tapped_absent>>

\* Mutant: /start takes the user out of the pending-timezone set.
start_clearing_pending(u) ==
    \E sent \in BOOLEAN :
        /\ USER_SETTINGS' = Put(USER_SETTINGS, u, UserSettings(u))
        /\ TIMEZONE_AWAIT_USERS' = TIMEZONE_AWAIT_USERS \ {u}
        /\ issued_start' = issued_start \cup {u}
        /\ last' = Event("start", u, NoData, <<Msg("greeting", "ru")>>, <<>>, ~sent)
        /\ UNCHANGED <<scheduler, job_seq, tapped_absent>>

\* Mutant: /start cancels the jobs the old record names.
start_cancelling_jobs(u) ==
    \E sent \in BOOLEAN :
        /\ USER_SETTINGS' = Put(USER_SETTINGS, u, UserSettings(u))
        /\ scheduler' = IF u \in DOMAIN USER_SETTINGS
                        THEN remove_jobs(scheduler, USER_SETTINGS[u].job_ids)
                        ELSE scheduler
        /\ issued_start' = issued_start \cup {u}
        /\ last' = Event("start", u, NoData, <<Msg("greeting", "ru")>>, <<>>, ~sent)
        /\ UNCHANGED <<TIMEZONE_AWAIT_USERS, job_seq, tapped_absent>>

\* start: a fresh default record replaces whatever the user had, then the
\* greeting with the language buttons is sent (sent: the send returned).
start(u) ==
    \E sent \in BOOLEAN :
        /\ USER_SETTINGS' = Put(USER_SETTINGS, u, UserSettings(u))
        /\ issued_start' = issued_start \cup {u}
        /\ last' = Event("start", u, NoData, <<Msg("greeting", "ru")>>, <<>>, ~sent)
        /\ UNCHANGED <<TIMEZONE_AWAIT_USERS, scheduler, job_seq, tapped_absent>>

\* help_command: the static command summary.
help_command(u) ==
    \E sent \in BOOLEAN :
        /\ last' = Event("help", u, NoData, <<Msg("help", "ru")>>, <<>>, ~sent)
        /\ UNCHANGED <<USER_SETTINGS, TIMEZONE_AWAIT_USERS, scheduler, job_seq,
                       issued_start, tapped_absent>>

\* Mutant: /parsha registers a user who has no record.
parsha_command_registering(u) ==
    \E sent \in BOOLEAN :
        /\ u \notin DOMAIN USER_SETTINGS
        /\ USER_SETTINGS' = Put(USER_SETTINGS, u, UserSettings(u))
        /\ last' = Event("parsha", u, NoData, <<Msg("need_start", "ru")>>, <<>>, ~sent)
        /\ UNCHANGED <<TIMEZONE_AWAIT_USERS, scheduler, job_seq, issued_start,
                       tapped_absent>>

\* Mutant: /parsha without a record goes on to generate with the defaults.
parsha_command_unchecked(u) ==
    \E gen_ok \in BOOLEAN, sent \in BOOLEAN :
        /\ last' =
              LET settings == IF u \in DOMAIN USER_SETTINGS THEN USER_SETTINGS[u]
                              ELSE UserSettings(u)
                  call == generate_parsha_text(settings, "manual_parsha", gen_ok)
              IN  IF gen_ok
                  THEN Event("parsha", u, NoData, <<Generated(settings)>>,
                             <<call>>, ~sent)
                  ELSE Event("parsha", u, NoData, <<>>, <<call>>, TRUE)
        /\ UNCHANGED <<USER_SETTINGS, TIMEZONE_AWAIT_USERS, scheduler, job_seq,
                       issued_start, tapped_absent>>

\* parsha_command: without a record, the prompt to run /start; with one, a
\* manual_parsha generation and its reply, neither inside a try.
parsha_command(u) ==
    \E gen_ok \in BOOLEAN, sent \in BOOLEAN :
        /\ last' =
              IF u \notin DOMAIN USER_SETTINGS
              THEN Event("parsha", u, NoData, <<Msg("need_start", "ru")>>, <<>>, ~sent)
              ELSE LET settings == USER_SETTINGS[u]
                       call == generate_parsha_text(settings, "manual_parsha", gen_ok)
                   IN  IF gen_ok
                       THEN Event("parsha", u, NoData, <<Generated(settings)>>,
                                  <<call>>, ~sent)
                       ELSE Event("parsha", u, NoData, <<>>, <<call>>, TRUE)
        /\ UNCHANGED <<USER_SETTINGS, TIMEZONE_AWAIT_USERS, scheduler, job_seq,
                       issued_start, tapped_absent>>

\* ------------------------------------------------------ onboarding taps

\* A callback payload "<prefix>_<rest>".
Data(prefix, rest) == [prefix |-> prefix, rest |-> rest]

TimeMapping == {"morning", "day", "evening", "anytime"}

LevelMapping == {"1", "2", "3"}

\* Mutant: level_2 is mapped to level 3.
LevelOfMistyped(rest) == IF rest = "1" THEN 1 ELSE 3

LevelOf(rest) == IF rest = "1" THEN 1 ELSE IF rest = "2" THEN 2 ELSE 3

StyleMapping == {"friend", "story", "rabbi"}

\* What a step of button_handler leaves.
Step(settings, awaiting, sched, seq, msgs, gen, exc) ==
    [settings |-> settings, awaiting |-> awaiting, scheduler |-> sched,
     job_seq |-> seq, msgs |-> msgs, gen |-> gen, exc |-> exc]

\* Mutant: the scheduling call is not inside a try.
style_step_untried(settings, data, n, gen_ok, edit_ok, edit2_ok) ==
    LET styled == [settings EXCEPT !.style =
                      IF data.rest \in StyleMapping THEN data.rest ELSE "friend"]
        done == schedule_jobs_for_user(styled, scheduler, job_seq, n)
        call == generate_parsha_text(done.settings, "onboarding_now", gen_ok)
    IN  IF done.raised
        THEN Step(done.settings, FALSE, done.scheduler, done.job_seq,
                  <<>>, <<>>, TRUE)
        ELSE Step(done.settings, FALSE, done.scheduler, done.job_seq,
                  IF gen_ok THEN <<Generated(done.settings)>> ELSE <<>>,
                  <<call>>, ~(gen_ok /\ edit_ok))

\* Mutant: a failed welcome text cancels the schedule just made.
style_step_rolling_back(settings, data, n, gen_ok, edit_ok, edit2_ok) ==
    LET styled == [settings EXCEPT !.style =
                      IF data.rest \in StyleMapping THEN data.rest ELSE "friend"]
        done == schedule_jobs_for_user(styled, scheduler, job_seq, n)
        call == generate_parsha_text(done.settings, "onboarding_now", gen_ok)
        undone == [done.settings EXCEPT !.job_ids = EmptyDict]
        cancelled == remove_jobs(done.scheduler, done.settings.job_ids)
    IN  IF done.raised
        THEN Step(done.settings, FALSE, done.scheduler, done.job_seq,
                  <<Msg("sched_apology", "ru")>>, <<>>, ~edit_ok)
        ELSE IF gen_ok /\ edit_ok
        THEN Step(done.settings, FALSE, done.scheduler, done.job_seq,
                  <<Generated(done.settings)>>, <<call>>, FALSE)
        ELSE IF gen_ok
        THEN Step(undone, FALSE, cancelled, done.job_seq,
                  <<Generated(done.settings), Msg("gen_apology", "ru")>>,
                  <<call>>, ~edit2_ok)
        ELSE Step(undone, FALSE, cancelled, done.job_seq,
                  <<Msg("gen_apology", "ru")>>, <<call>>, ~edit2_ok)

\* The style_* branch: set style, schedule, then the welcome text.
\* n: add_job calls that return; gen_ok: the generation returns; edit_ok:
\* the first edit returns; edit2_ok: the edit of the except branch returns.
style_step(settings, data, n, gen_ok, edit_ok, edit2_ok) ==
    LET styled == [settings EXCEPT !.style =
                      IF data.rest \in StyleMapping THEN data.rest ELSE "friend"]
        done == schedule_jobs_for_user(styled, scheduler, job_seq, n)
        call == generate_parsha_text(done.settings, "onboarding_now", gen_ok)
    IN  IF done.raised
        THEN Step(done.settings, FALSE, done.scheduler, done.job_seq,
                  <<Msg("sched_apology", "ru")>>, <<>>, ~edit_ok)
        ELSE IF gen_ok /\ edit_ok
        THEN Step(done.settings, FALSE, done.scheduler, done.job_seq,
                  <<Generated(done.settings)>>, <<call>>, FALSE)
        ELSE IF gen_ok
        THEN Step(done.settings, FALSE, done.scheduler, done.job_seq,
                  <<Generated(done.settings), Msg("gen_apology", "ru")>>,
                  <<call>>, ~edit2_ok)
        ELSE Step(done.settings, FALSE, done.scheduler, done.job_seq,
                  <<Msg("gen_apology", "ru")>>, <<call>>, ~edit2_ok)

\* Mutant: the preset name is stored without validation.
tz_step_unvalidated(settings, data, edit_ok) ==
    LET zoned == [settings EXCEPT !.timezone = data.rest]
    IN  Step(zoned, FALSE, scheduler, job_seq,
             <<Localized("level_prompt", zoned)>>, <<>>, ~edit_ok)

\* The preset-timezone branch.
tz_step(settings, data, edit_ok) ==
    LET tz_name == data.rest
        zoned == [settings EXCEPT !.timezone =
                     IF ZoneInfoOK(tz_name) THEN tz_name ELSE "Asia/Dubai"]
    IN  Step(zoned, FALSE, scheduler, job_seq,
             <<Localized("level_prompt", zoned)>>, <<>>, ~edit_ok)

\* button_handler after query.answer() returned, on the user's record
\* `settings` (the one found, or the default one just created).
button_step(settings, data, n, gen_ok, edit_ok, edit2_ok) ==
    IF data = Data("lang", "ru")
    THEN Step([settings EXCEPT !.language = "ru"], FALSE, scheduler, job_seq,
              <<Msg("time_prompt", "ru")>>, <<>>, ~edit_ok)
    ELSE IF data = Data("lang", "en")
    THEN Step([settings EXCEPT !.language = "en"], FALSE, scheduler, job_seq,
              <<Msg("time_prompt", "en")>>, <<>>, ~edit_ok)
    ELSE IF data.prefix = "time"
    THEN IF data.rest \in TimeMapping
         THEN LET timed == [settings EXCEPT !.send_time = data.rest]
              IN  Step(timed, FALSE, scheduler, job_seq,
                       <<Localized("tz_prompt", timed)>>, <<>>, ~edit_ok)
         ELSE Step(settings, FALSE, scheduler, job_seq, <<>>, <<>>, TRUE)
    ELSE IF data.prefix = "tz" /\ data # Data("tz", "custom")
    THEN tz_step(settings, data, edit_ok)
    ELSE IF data = Data("tz", "custom")
    THEN Step(settings, TRUE, scheduler, job_seq,
              <<Localized("tz_custom_prompt", settings)>>, <<>>, ~edit_ok)
    ELSE IF data.prefix = "level"
    THEN IF data.rest \in LevelMapping
         THEN LET levelled == [settings EXCEPT !.level = LevelOf(data.rest)]
              IN  Step(levelled, FALSE, scheduler, job_seq,
                       <<Localized("style_prompt", levelled)>>, <<>>, ~edit_ok)
         ELSE Step(settings, FALSE, scheduler, job_seq, <<>>, <<>>, TRUE)
    ELSE IF data.prefix = "style"
    THEN style_step(settings, data, n, gen_ok, edit_ok, edit2_ok)
    ELSE Step(settings, FALSE, scheduler, job_seq, <<>>, <<>>, FALSE)

\* The add_job calls that return before one of schedule_jobs_for_user
\* raises.  The three calls build their triggers from the same hour, minute
\* and timezone, so a call that raises is the first one.
AddJobFailures == {0}

\* How the external calls of one tap can end.  n: the add_job calls that
\* return before one raises (3: all return); gen_ok: the generation returns;
\* edit_ok: the first edit returns; edit2_ok: the apology edit of the
\* generation except-branch returns.  Only a style_* tap schedules and
\* generates; the other taps make one edit.
Outcomes(data) ==
    IF data.prefix = "style"
    THEN [n : AddJobFailures, gen_ok : {TRUE}, edit_ok : BOOLEAN, edit2_ok : {TRUE}]
         \cup [n : {3}, gen_ok : {TRUE}, edit_ok : {TRUE}, edit2_ok : {TRUE}]
         \cup [n : {3}, gen_ok : {TRUE}, edit_ok : {FALSE}, edit2_ok : BOOLEAN]
         \cup [n : {3}, gen_ok : {FALSE}, edit_ok : {TRUE}, edit2_ok : BOOLEAN]
    ELSE [n : {3}, gen_ok : {TRUE}, edit_ok : BOOLEAN, edit2_ok : {TRUE}]

\* Mutant: no record is created for a user who has none; the tz_custom
\* branch still adds the user to the pending set before it reads the
\* missing record and raises.
button_handler_not_registering(u, data) ==
    \E ack \in BOOLEAN :
        IF ~ack
        THEN /\ last' = Event("button", u, NoData, <<>>, <<>>, TRUE)
             /\ UNCHANGED <<USER_SETTINGS, TIMEZONE_AWAIT_USERS, scheduler,
                            job_seq, issued_start, tapped_absent>>
        ELSE IF u \notin DOMAIN USER_SETTINGS
        THEN /\ TIMEZONE_AWAIT_USERS' =
                   IF data = Data("tz", "custom") THEN TIMEZONE_AWAIT_USERS \cup {u}
                   ELSE TIMEZONE_AWAIT_USERS
             /\ last' = Event("button", u, data, <<>>, <<>>, TRUE)
             /\ UNCHANGED <<USER_SETTINGS, scheduler, job_seq, issued_start,
                            tapped_absent>>
        ELSE \E o \in Outcomes(data) :
             LET step == button_step(USER_SETTINGS[u], data, o.n, o.gen_ok,
                                     o.edit_ok, o.edit2_ok)
             IN  /\ step.job_seq <= MaxJobs
                 /\ USER_SETTINGS' = Put(USER_SETTINGS, u, step.settings)
                 /\ TIMEZONE_AWAIT_USERS' =
                       IF step.awaiting THEN TIMEZONE_AWAIT_USERS \cup {u}
                       ELSE TIMEZONE_AWAIT_USERS
                 /\ scheduler' = step.scheduler
                 /\ job_seq' = step.job_seq
                 /\ last' = Event("button", u, data, step.msgs, step.gen, step.exc)
                 /\ UNCHANGED <<issued_start, tapped_absent>>

\* button_handler: acknowledge the tap (query.answer(); when it raises the
\* handler ends there, before it has read the user or the payload), find
\* or create the record, run the step the payload selects.
button_handler(u, data) ==
    \E ack \in BOOLEAN :
        IF ~ack
        THEN /\ last' = Event("button", u, NoData, <<>>, <<>>, TRUE)
             /\ UNCHANGED <<USER_SETTINGS, TIMEZONE_AWAIT_USERS, scheduler,
                            job_seq, issued_start, tapped_absent>>
        ELSE \E o \in Outcomes(data) :
             LET absent == u \notin DOMAIN USER_SETTINGS
                 settings == IF absent THEN UserSettings(u) ELSE USER_SETTINGS[u]
                 step == button_step(settings, data, o.n, o.gen_ok, o.edit_ok, o.edit2_ok)
             IN  /\ step.job_seq <= MaxJobs
                 /\ USER_SETTINGS' = Put(USER_SETTINGS, u, step.settings)
                 /\ TIMEZONE_AWAIT_USERS' =
                       IF step.awaiting THEN TIMEZONE_AWAIT_USERS \cup {u}
                       ELSE TIMEZONE_AWAIT_USERS
                 /\ scheduler' = step.scheduler
                 /\ job_seq' = step.job_seq
                 /\ tapped_absent' =
                       IF absent THEN tapped_absent \cup {u} ELSE tapped_absent
                 /\ last' = Event("button", u, data, step.msgs, step.gen, step.exc)
                 /\ UNCHANGED issued_start

\* ------------------------------------------------------------- free text

\* Mutant: the typed name is stored without asking the timezone database.
text_step_unvalidated(u, text) ==
    \E sent \in BOOLEAN :
        LET tz_text == Spelled(strip(text))
        IN  IF u \notin DOMAIN USER_SETTINGS
            THEN /\ TIMEZONE_AWAIT_USERS' = TIMEZONE_AWAIT_USERS \ {u}
                 /\ last' = TextEvent(u, text, <<Msg("need_start_text", "ru")>>,
                                      ~sent)
                 /\ UNCHANGED <<USER_SETTINGS, scheduler, job_seq,
                                issued_start, tapped_absent>>
            ELSE LET zoned == [USER_SETTINGS[u] EXCEPT !.timezone = tz_text]
                 IN  /\ USER_SETTINGS' = Put(USER_SETTINGS, u, zoned)
                     /\ TIMEZONE_AWAIT_USERS' = TIMEZONE_AWAIT_USERS \ {u}
                     /\ last' = TextEvent(u, text,
                                          <<Localized("level_prompt_after_text", zoned)>>,
                                          ~sent)
                     /\ UNCHANGED <<scheduler, job_seq, issued_start,
                                    tapped_absent>>

\* timezone_text_handler for a user it does not ignore: strip the text,
\* then the missing-settings, valid-name or retry branch (sent: the reply
\* returned).
text_step(u, text) ==
    \E sent \in BOOLEAN :
        LET tz_text == Spelled(strip(text))
        IN  IF u \notin DOMAIN USER_SETTINGS
            THEN /\ TIMEZONE_AWAIT_USERS' = TIMEZONE_AWAIT_USERS \ {u}
                 /\ last' = TextEvent(u, text, <<Msg("need_start_text", "ru")>>,
                                      ~sent)
                 /\ UNCHANGED <<USER_SETTINGS, scheduler, job_seq,
                                issued_start, tapped_absent>>
            ELSE IF ZoneInfoOK(tz_text)
            THEN LET zoned == [USER_SETTINGS[u] EXCEPT !.timezone = tz_text]
                 IN  /\ USER_SETTINGS' = Put(USER_SETTINGS, u, zoned)
                     /\ TIMEZONE_AWAIT_USERS' = TIMEZONE_AWAIT_USERS \ {u}
                     /\ last' = TextEvent(u, text,
                                          <<Localized("level_prompt_after_text", zoned)>>,
                                          ~sent)
                     /\ UNCHANGED <<scheduler, job_seq, issued_start,
                                    tapped_absent>>
            ELSE /\ last' = TextEvent(u, text,
                                      <<Localized("tz_retry", USER_SETTINGS[u])>>,
                                      ~sent)
                 /\ UNCHANGED <<USER_SETTINGS, TIMEZONE_AWAIT_USERS, scheduler,
                                job_seq, issued_start, tapped_absent>>

\* Mutant: the text of a user who is not typing a timezone is handled too.
timezone_text_handler_unguarded(u, text) == text_step(u, text)

\* timezone_text_handler: text of a user outside the pending set is ignored.
timezone_text_handler(u, text) ==
    IF u \notin TIMEZONE_AWAIT_USERS
    THEN /\ last' = Event("text", u, NoData, <<>>, <<>>, FALSE)
         /\ UNCHANGED <<USER_SETTINGS, TIMEZONE_AWAIT_USERS, scheduler,
                        job_seq, issued_start, tapped_absent>>
    ELSE text_step(u, text)

\* ------------------------------------------------------------ deliveries

\* The except branch of a delivery function: logger.exception, nothing else.
Logged(ev) == [ev EXCEPT !.logged = TRUE]

\* Mutant: a failed generation is tried a second time.
deliver_retrying(u, day, mode, gen_ok, send_ok) ==
    IF u \notin DOMAIN USER_SETTINGS
    THEN Event("delivery", u, Data("job", day), <<>>, <<>>, FALSE)
    ELSE LET settings == USER_SETTINGS[u]
             call == generate_parsha_text(settings, mode, gen_ok)
         IN  IF ~gen_ok
             THEN Logged(Event("delivery", u, Data("job", day), <<>>,
                               <<call, call>>, FALSE))
             ELSE IF ~send_ok
             THEN Logged(Event("delivery", u, Data("job", day),
                               <<Generated(settings)>>, <<call>>, FALSE))
             ELSE Event("delivery", u, Data("job", day),
                        <<Generated(settings)>>, <<call>>, FALSE)

\* A delivery function fired for user u in mode `mode`: nothing without a
\* record; otherwise one generation (gen_ok: it returned) and, if it
\* returned, one send (send_ok: it returned), any failure logged and
\* dropped.
deliver(u, day, mode, gen_ok, send_ok) ==
    IF u \notin DOMAIN USER_SETTINGS
    THEN Event("delivery", u, Data("job", day), <<>>, <<>>, FALSE)
    ELSE LET settings == USER_SETTINGS[u]
             call == generate_parsha_text(settings, mode, gen_ok)
         IN  IF ~gen_ok
             THEN Logged(Event("delivery", u, Data("job", day), <<>>,
                               <<call>>, FALSE))
             ELSE IF ~send_ok
             THEN Logged(Event("delivery", u, Data("job", day),
                               <<Generated(settings)>>, <<call>>, FALSE))
             ELSE Event("delivery", u, Data("job", day),
                        <<Generated(settings)>>, <<call>>, FALSE)

send_sunday_parsha_for_user(u, gen_ok, send_ok) ==
    deliver(u, "sun", "sunday_main", gen_ok, send_ok)

send_midweek_detail_for_user(u, gen_ok, send_ok) ==
    deliver(u, "wed", "midweek_detail", gen_ok, send_ok)

send_friday_toast_for_user(u, gen_ok, send_ok) ==
    deliver(u, "fri", "friday_toast", gen_ok, send_ok)

\* How the two external calls of a delivery can end: the generation raises
\* (no send is made), the send raises, or both return.
DeliveryOutcomes ==
    {[gen_ok |-> FALSE, send_ok |-> TRUE], [gen_ok |-> TRUE, send_ok |-> FALSE],
     [gen_ok |-> TRUE, send_ok |-> TRUE]}

\* The scheduler fires job j: it calls the job's function with its args.
fire_job(j) ==
    \E o \in DeliveryOutcomes :
        /\ j \in DOMAIN scheduler
        /\ last' =
              LET job == scheduler[j]
              IN  IF job.func = "send_sunday_parsha_for_user"
                  THEN send_sunday_parsha_for_user(job.user, o.gen_ok, o.send_ok)
                  ELSE IF job.func = "send_midweek_detail_for_user"
                  THEN send_midweek_detail_for_user(job.user, o.gen_ok, o.send_ok)
                  ELSE send_friday_toast_for_user(job.user, o.gen_ok, o.send_ok)
        /\ UNCHANGED <<USER_SETTINGS, TIMEZONE_AWAIT_USERS, scheduler, job_seq,
                       issued_start, tapped_absent>>

\* ------------------------------------------------------ the environment

\* The payloads a tap carries here: the language buttons, a preset timezone
\* the database knows and one it does not, the custom-timezone button, two
\* style buttons, a style payload the mapping does not know, and a payload
\* no branch of button_handler matches.
CallbackData ==
    {Data("lang", "ru"), Data("lang", "en"), Data("tz", "Asia/Jerusalem"),
     Data("tz", "Mars/Nowhere"), Data("tz", "custom"), Data("style", "friend"),
     Data("style", "story"), Data("style", "bogus"), Data("noop", "")}

\* The free texts: up to MaxTextLen tokens.
TextInputs == UNION {[1..n -> TextTokens] : n \in 0..MaxTextLen}

JobIds == 1..MaxJobs

\* Any command, tap, text message or job firing of the users `users`, the
\* taps carrying the payloads `payloads` and the text messages being
\* `texts`, in any order.
Events(users, payloads, texts) ==
    \/ \E u \in users : start(u) /\ UNCHANGED <<taps, running>>
    \/ \E u \in users : help_command(u) /\ UNCHANGED <<taps, running>>
    \/ \E u \in users : parsha_command(u) /\ UNCHANGED <<taps, running>>
    \/ \E u \in users, data \in payloads :
          button_handler(u, data) /\ UNCHANGED <<taps, running>>
    \/ \E u \in users, text \in texts :
          timezone_text_handler(u, text) /\ UNCHANGED <<taps, running>>
    \/ \E j \in JobIds : fire_job(j) /\ UNCHANGED <<taps, running>>

\* One user, every kind of payload.
Next == Events(Users, CallbackData, TextInputs)

Spec == Init /\ [][Next]_vars

\* ---------------------------------------------------------- two users

PairUsers == {"u1", "u2"}

\* The payloads of the two-user runs: the custom-timezone button and one
\* style button (the tap that schedules).
PairData == {Data("tz", "custom"), Data("style", "story")}

\* The text messages of the two-user runs: a name the database knows and
\* one it does not.
PairTexts == {<<"Asia/Dubai">>, <<"Mars/Nowhere">>}

NextPair == Events(PairUsers, PairData, PairTexts)

SpecPair == Init /\ [][NextPair]_vars

\* ------------------------------------------------- the guided onboarding

\* One user who follows the prompts: /start, then one button of each
\* keyboard in the order the prompts offer them, every button of every
\* keyboard being a possible choice.  `taps` records the steps handled (a
\* tap whose acknowledgement raised is not handled and may be repeated).
OnboardingUser == "u1"

LangButtons == {Data("lang", l) : l \in Languages}

TimeButtons == {Data("time", t) : t \in SendTimes}

PresetButtons == {Data("tz", z) : z \in TZDatabase}

LevelButtons == {Data("level", l) : l \in LevelMapping}

StyleButtons == {Data("style", x) : x \in Styles}

OnboardingStart ==
    /\ taps = <<>>
    /\ start(OnboardingUser)
    /\ taps' = <<Data("start", "")>>
    /\ UNCHANGED running

OnboardingTap(stage, buttons) ==
    /\ Len(taps) = stage
    /\ \E data \in buttons :
          /\ button_handler(OnboardingUser, data)
          /\ taps' = IF last'.data = data THEN Append(taps, data) ELSE taps
    /\ UNCHANGED running

NextOnboarding ==
    \/ OnboardingStart
    \/ OnboardingTap(1, LangButtons)
    \/ OnboardingTap(2, TimeButtons)
    \/ OnboardingTap(3, PresetButtons)
    \/ OnboardingTap(4, LevelButtons)
    \/ OnboardingTap(5, StyleButtons)

SpecOnboarding == Init /\ [][NextOnboarding]_vars

\* ----------------------------------------------------- taps in any order

\* One user who taps one button of each keyboard in any order, with /start
\* at any time: button_handler takes whatever payload arrives.  Here `taps`
\* records the steps handled since the last /start, at most MaxSteps.
StepButtons ==
    {Data("lang", "en"), Data("time", "evening"), Data("tz", "Europe/Berlin"),
     Data("level", "2"), Data("style", "story")}

AnyOrderStart ==
    /\ start(OnboardingUser)
    /\ taps' = <<>>
    /\ UNCHANGED running

AnyOrderTap ==
    /\ Len(taps) < MaxSteps
    /\ \E data \in StepButtons :
          /\ button_handler(OnboardingUser, data)
          /\ taps' = IF last'.data = data THEN Append(taps, data) ELSE taps
    /\ UNCHANGED running

NextAnyOrder ==
    \/ AnyOrderStart
    \/ AnyOrderTap

SpecAnyOrder == Init /\ [][NextAnyOrder]_vars

\* ------------------------------------------------ the prompt builder alone

\* build_user_prompt applied to every combination of arguments: the
\* language codes (any code other than "ru" is answered in English), the
\* levels, the styles, two portion names, and the modes: the four the
\* function names, manual_parsha, and two it has never heard of.
PromptLanguages == {"ru", "en", "he"}

PortionNames == {"Vayishlach", "Noach"}

PromptModes ==
    {"sunday_main", "midweek_detail", "friday_toast", "onboarding_now",
     "manual_parsha", "weekly_digest", ""}

PromptArgs ==
    [language : PromptLanguages, level : KnowledgeLevels, style : Styles,
     parsha_name : PortionNames, mode : PromptModes]

\* The arguments of a call are chosen; `gen` holds them.
InitPrompt ==
    /\ USER_SETTINGS = EmptyDict
    /\ TIMEZONE_AWAIT_USERS = {}
    /\ scheduler = EmptyDict
    /\ job_seq = 0
    /\ issued_start = {}
    /\ tapped_absent = {}
    /\ taps = <<>>
    /\ running = {}
    /\ \E args \in PromptArgs :
          last = Event("args", "", NoData, <<>>, <<args>>, FALSE)

\* The call is made; `gen` holds the arguments and the prompt built.
BuildPrompt ==
    /\ last.op = "args"
    /\ LET args == last.gen[1]
       IN  last' = Event("prompt", "", NoData, <<>>,
                         <<args, build_user_prompt(args.language, args.level,
                                                   args.style, args.parsha_name,
                                                   args.mode)>>,
                         FALSE)
    /\ UNCHANGED <<USER_SETTINGS, TIMEZONE_AWAIT_USERS, scheduler, job_seq,
                   issued_start, tapped_absent, taps, running>>

NextPrompt == BuildPrompt

SpecPrompt == InitPrompt /\ [][NextPrompt]_vars

\* ------------------------------------------- the event loop, await by await

\* The routines that await a text generation and then a send, a delivery
\* function or parsha_command, taken one await at a time: a routine
\* begins, runs to its generation call and is suspended there; when the
\* call has returned or raised the loop resumes it, and it runs to its send
\* call or to its end.  The scheduler starts a delivery as a task of its
\* own, whatever else is suspended; the application handles one update at
\* a time, so no handler begins while parsha_command is suspended.  A call
\* returns, raises, or never completes.
Fates == {"returns", "raises", "hangs"}

\* How the two calls of a routine end (no send is made unless the
\* generation returns).
CallFates ==
    {[gen |-> g, send |-> x] : g \in {"raises", "hangs"}, x \in {"returns"}}
    \cup {[gen |-> g, send |-> x] : g \in {"returns"}, x \in Fates}

Routine(op, user, job, day, fates) ==
    [op |-> op, user |-> user, job |-> job, day |-> day, pc |-> "generate",
     gen_fate |-> fates.gen, send_fate |-> fates.send]

\* The fate of the call routine r is suspended at.
Waiting(r) == IF r.pc = "generate" THEN r.gen_fate ELSE r.send_fate

\* Mutant: the calls block the loop, so nothing is resumed while any call
\* has not completed.
ReadyOnBlockedLoop(r) ==
    /\ Waiting(r) # "hangs"
    /\ \A q \in running : Waiting(q) # "hangs"

\* The loop can resume r: the call it awaits has completed.  The calls are
\* awaited (AsyncOpenAI, the bot's coroutines), so a call of another routine
\* that has not completed holds nothing up.
Ready(r) == Waiting(r) # "hangs"

HandlerSuspended == \E r \in running : r.op = "parsha"

\* A user without a record taps a style button (the tap that schedules);
\* the tap is handled as one step.
LoopTap(u) ==
    /\ ~HandlerSuspended
    /\ u \notin DOMAIN USER_SETTINGS
    /\ button_handler(u, Data("style", "story"))
    /\ UNCHANGED <<taps, running>>

\* parsha_command of a user with a record runs to its generation call.
parsha_begin(u) ==
    /\ ~HandlerSuspended
    /\ Cardinality(running) < MaxInFlight
    /\ u \in DOMAIN USER_SETTINGS
    /\ \E f \in CallFates :
          running' = running \cup {Routine("parsha", u, 0, "", f)}
    /\ UNCHANGED <<USER_SETTINGS, TIMEZONE_AWAIT_USERS, scheduler, job_seq,
                   issued_start, tapped_absent, last, taps>>

\* The scheduler fires job j (one instance of a job at a time): its
\* delivery function finds the record and runs to its generation call.
fire_begin(j) ==
    /\ j \in DOMAIN scheduler
    /\ \A r \in running : r.job # j
    /\ Cardinality(running) < MaxInFlight
    /\ scheduler[j].user \in DOMAIN USER_SETTINGS
    /\ \E f \in CallFates :
          running' = running \cup
              {Routine("delivery", scheduler[j].user, j, scheduler[j].day_of_week, f)}
    /\ UNCHANGED <<USER_SETTINGS, TIMEZONE_AWAIT_USERS, scheduler, job_seq,
                   issued_start, tapped_absent, last, taps>>

\* What routine r did, once it has ended.
Finished(r, gen_ok, send_ok) ==
    IF r.op = "delivery"
    THEN IF r.day = "sun" THEN send_sunday_parsha_for_user(r.user, gen_ok, send_ok)
         ELSE IF r.day = "wed"
         THEN send_midweek_detail_for_user(r.user, gen_ok, send_ok)
         ELSE send_friday_toast_for_user(r.user, gen_ok, send_ok)
    ELSE LET settings == USER_SETTINGS[r.user]
             call == generate_parsha_text(settings, "manual_parsha", gen_ok)
         IN  Event("parsha", r.user, NoData,
                   IF gen_ok THEN <<Generated(settings)>> ELSE <<>>,
                   <<call>>, ~(gen_ok /\ send_ok))

\* The loop resumes r: after a generation that returned r makes its send
\* call and is suspended again; otherwise r ends.
resume(r) ==
    /\ r \in running
    /\ Ready(r)
    /\ IF r.pc = "generate" /\ r.gen_fate = "returns"
       THEN /\ running' = (running \ {r}) \cup {[r EXCEPT !.pc = "send"]}
            /\ UNCHANGED last
       ELSE /\ running' = running \ {r}
            /\ last' = Finished(r, r.gen_fate = "returns", r.send_fate = "returns")
    /\ UNCHANGED <<USER_SETTINGS, TIMEZONE_AWAIT_USERS, scheduler, job_seq,
                   issued_start, tapped_absent, taps>>

\* The routine of job j (0: the handler) is resumed.
ResumeJob(j) == \E r \in running : r.job = j /\ resume(r)

NextLoop ==
    \/ \E u \in PairUsers : LoopTap(u)
    \/ \E u \in PairUsers : parsha_begin(u)
    \/ \E j \in JobIds : fire_begin(j)
    \/ \E j \in 0..MaxJobs : ResumeJob(j)

\* The loop runs every routine whose call has completed: its ready queue
\* is first in, first out.
SpecLoop ==
    /\ Init
    /\ [][NextLoop]_vars
    /\ \A j \in 0..MaxJobs : WF_vars(ResumeJob(j))

\* ================================================================ claims

\* The jobs of the job store `sched` that target user u.
JobsOf(u, sched) == {j \in DOMAIN sched : sched[j].user = u}

\* The last event is a style_* tap of u whose scheduling succeeded (the
\* handler went on to the onboarding_now generation).
StyleScheduled(u, ev) ==
    /\ ev.op = "button" /\ ev.user = u /\ ev.data.prefix = "style"
    /\ ev.gen # <<>>

\* C1: a successful schedule_jobs_for_user call on a record that already
\* holds the three job ids of an earlier successful call removes those three
\* from the scheduler and adds three new ones: of the six identifiers of the
\* two calls exactly three (the new ones) are active, and the number of the
\* user's active jobs is the same as before the second call.
C1_RescheduleLeavesThree ==
    [][\A u \in DOMAIN USER_SETTINGS :
          (USER_SETTINGS[u].job_ids # EmptyDict /\ StyleScheduled(u, last'))
          => LET old == Range(USER_SETTINGS[u].job_ids)
                 new == Range(USER_SETTINGS'[u].job_ids)
             IN  /\ Cardinality(old) = 3
                 /\ Cardinality(new) = 3
                 /\ old \cap DOMAIN scheduler' = {}
                 /\ new \subseteq DOMAIN scheduler'
                 /\ Cardinality((old \cup new) \cap DOMAIN scheduler') = 3
                 /\ DOMAIN scheduler' = (DOMAIN scheduler \ old) \cup new
                 /\ Cardinality(JobsOf(u, scheduler')) = Cardinality(JobsOf(u, scheduler))]_vars

\* C1 witness: a second successful call on the same record has happened;
\* six identifiers were handed out and the scheduler holds only the last three.
C1_Witness ==
    \E u \in DOMAIN USER_SETTINGS :
        /\ StyleScheduled(u, last)
        /\ job_seq = 6
        /\ Range(USER_SETTINGS[u].job_ids) = {4, 5, 6}
        /\ DOMAIN scheduler = {4, 5, 6}

\* C2: whenever a style_* tap has completed with successful scheduling, the
\* scheduler holds exactly three active jobs for that user, one for Sunday,
\* one for Wednesday and one for Friday.
C2_ExactlyThreeJobsAfterOnboarding ==
    \A u \in DOMAIN USER_SETTINGS :
        StyleScheduled(u, last)
        => /\ Cardinality(JobsOf(u, scheduler)) = 3
           /\ \A d \in {"sun", "wed", "fri"} :
                Cardinality({j \in JobsOf(u, scheduler) :
                               scheduler[j].day_of_week = d}) = 1

\* C3: after /start the user's record is the default record, whatever the
\* record and its job ids were before.
C3_StartResetsToDefault ==
    last.op = "start"
    => /\ last.user \in DOMAIN USER_SETTINGS
       /\ USER_SETTINGS[last.user] =
             [user_id |-> last.user, language |-> "ru", level |-> 1,
              style |-> "friend", send_time |-> "anytime",
              timezone |-> "Asia/Dubai", job_ids |-> EmptyDict]

\* C3 witness: /start handled for a user who had completed an onboarding
\* (jobs of theirs are in the scheduler) and had changed language and zone.
C3_Witness ==
    /\ last.op = "start"
    /\ JobsOf(last.user, scheduler) # {}
    /\ \E j \in JobsOf(last.user, scheduler) : scheduler[j].timezone = "Asia/Jerusalem"

\* C4: in the guided onboarding /start, lang_L, time_T, tz_Z, level_N,
\* style_S, once the style tap has scheduled successfully the record holds
\* exactly language L, send_time T, timezone Z, level N, style S, and job_ids
\* holds exactly the keys sunday, midweek, friday.
C4_OnboardingRoundTrip ==
    (Len(taps) = 6 /\ StyleScheduled(OnboardingUser, last))
    => LET settings == USER_SETTINGS[OnboardingUser]
       IN  /\ taps[2].prefix = "lang" /\ settings.language = taps[2].rest
           /\ taps[3].prefix = "time" /\ settings.send_time = taps[3].rest
           /\ taps[4].prefix = "tz" /\ settings.timezone = taps[4].rest
           /\ taps[5].prefix = "level"
           /\ \/ taps[5].rest = "1" /\ settings.level = 1
              \/ taps[5].rest = "2" /\ settings.level = 2
              \/ taps[5].rest = "3" /\ settings.level = 3
           /\ taps[6].prefix = "style" /\ settings.style = taps[6].rest
           /\ settings.user_id = OnboardingUser
           /\ DOMAIN settings.job_ids = {"sunday", "midweek", "friday"}

\* C4 witness: the round trip lang_ru, time_morning, tz_Asia/Jerusalem,
\* level_2, style_story has completed with successful scheduling.
C4_Witness ==
    /\ taps = <<Data("start", ""), Data("lang", "ru"), Data("time", "morning"),
                Data("tz", "Asia/Jerusalem"), Data("level", "2"),
                Data("style", "story")>>
    /\ StyleScheduled(OnboardingUser, last)
    /\ USER_SETTINGS[OnboardingUser].level = 2
    /\ USER_SETTINGS[OnboardingUser].timezone = "Asia/Jerusalem"

\* The record a handler works on for user u: the one found or the default.
RecordOf(u) ==
    IF u \in DOMAIN USER_SETTINGS THEN USER_SETTINGS[u]
    ELSE [user_id |-> u, language |-> "ru", level |-> 1, style |-> "friend",
          send_time |-> "anytime", timezone |-> "Asia/Dubai",
          job_ids |-> EmptyDict]

\* C5: a handled style_* tap whose scheduling raised (no job identifier was
\* handed out) leaves language, send_time, timezone and level as the
\* completed steps set them, style as tapped, job_ids empty; the only
\* message is the scheduling-failure apology and no generation call is made.
C5_SchedulingFailure ==
    [][\A u \in Users :
          (/\ last'.op = "button" /\ last'.user = u
           /\ last'.data.prefix = "style"
           /\ job_seq' = job_seq)
          => LET before == RecordOf(u)
                 after == USER_SETTINGS'[u]
             IN  /\ after.language = before.language
                 /\ after.send_time = before.send_time
                 /\ after.timezone = before.timezone
                 /\ after.level = before.level
                 /\ after.style = IF last'.data.rest \in {"friend", "story", "rabbi"}
                                  THEN last'.data.rest ELSE "friend"
                 /\ after.job_ids = EmptyDict
                 /\ last'.msgs = <<[kind |-> "sched_apology", lang |-> "ru"]>>
                 /\ last'.gen = <<>>]_vars

\* C5 witness: scheduling raised for a user who had chosen English and
\* Asia/Jerusalem and whose record held the job ids of an earlier
\* successful scheduling (its three jobs were removed before the raise).
C5_Witness ==
    /\ last.op = "button" /\ last.data = [prefix |-> "style", rest |-> "story"]
    /\ last.msgs = <<[kind |-> "sched_apology", lang |-> "ru"]>>
    /\ job_seq = 3
    /\ DOMAIN scheduler = {}
    /\ USER_SETTINGS[last.user].language = "en"
    /\ USER_SETTINGS[last.user].timezone = "Asia/Jerusalem"
    /\ USER_SETTINGS[last.user].job_ids = EmptyDict

\* The knowledge-level prompt in the language of `settings`.
IsLevelPrompt(m, settings) ==
    /\ m.kind \in {"level_prompt", "level_prompt_after_text"}
    /\ m.lang = settings.language

\* C6: after a handled preset tap tz_<name>, the user's timezone is <name>
\* if the timezone database knows <name> and "Asia/Dubai" (never <name>)
\* if it does not; either way the one message is the knowledge-level prompt.
C6_PresetTimezone ==
    (last.op = "button" /\ last.data.prefix = "tz" /\ last.data.rest # "custom")
    => LET settings == USER_SETTINGS[last.user]
       IN  /\ last.data.rest \in TZDatabase => settings.timezone = last.data.rest
           /\ last.data.rest \notin TZDatabase
                 => settings.timezone = "Asia/Dubai"
                    /\ settings.timezone # last.data.rest
           /\ Len(last.msgs) = 1
           /\ last.msgs[1].kind = "level_prompt"
           /\ last.msgs[1].lang = settings.language

\* C6 witness: tz_Mars/Nowhere tapped by a user writing English whose
\* scheduled jobs run in Asia/Jerusalem; the timezone is back at Asia/Dubai.
C6_Witness ==
    /\ last.op = "button" /\ last.data = [prefix |-> "tz", rest |-> "Mars/Nowhere"]
    /\ USER_SETTINGS[last.user].timezone = "Asia/Dubai"
    /\ USER_SETTINGS[last.user].language = "en"
    /\ USER_SETTINGS[last.user].job_ids # EmptyDict
    /\ \A j \in Range(USER_SETTINGS[last.user].job_ids) :
          j \in DOMAIN scheduler /\ scheduler[j].timezone = "Asia/Jerusalem"

\* C7: the registered users are exactly those whose /start was handled or
\* whose tap was handled while they had no record; no step removes a
\* record; /help, /parsha, free text and deliveries create none; and a
\* record is created only for the user of a /start or of a tap.
C7_RegistryMembership ==
    /\ [](DOMAIN USER_SETTINGS = issued_start \cup tapped_absent)
    /\ [][/\ DOMAIN USER_SETTINGS \subseteq DOMAIN USER_SETTINGS'
          /\ last'.op \in {"help", "parsha", "text", "delivery"}
                => DOMAIN USER_SETTINGS' = DOMAIN USER_SETTINGS
          /\ \A u \in DOMAIN USER_SETTINGS' \ DOMAIN USER_SETTINGS :
                last'.user = u /\ last'.op \in {"start", "button"}]_vars

\* C7 witness: one user is registered by a tap alone, the other by /start,
\* and the event handled last is a /parsha.
C7_Witness ==
    /\ tapped_absent = {"u1"}
    /\ issued_start = {"u2"}
    /\ DOMAIN USER_SETTINGS = {"u1", "u2"}
    /\ last.op = "parsha"

\* C8: /parsha of a user without a record replies with the prompt to run
\* /start, makes no generation call, and leaves the registry, the pending
\* set and the scheduler as they were.
C8_ParshaWithoutSettings ==
    [][\A u \in PairUsers :
          (last'.op = "parsha" /\ last'.user = u /\ u \notin DOMAIN USER_SETTINGS)
          => /\ last'.msgs = <<[kind |-> "need_start", lang |-> "ru"]>>
             /\ last'.gen = <<>>
             /\ USER_SETTINGS' = USER_SETTINGS
             /\ TIMEZONE_AWAIT_USERS' = TIMEZONE_AWAIT_USERS
             /\ scheduler' = scheduler]_vars

\* C8 witness: /parsha of an unregistered user while the other user is
\* registered, has jobs scheduled and is typing a timezone.
C8_Witness ==
    /\ last.op = "parsha"
    /\ last.user \notin DOMAIN USER_SETTINGS
    /\ last.msgs = <<[kind |-> "need_start", lang |-> "ru"]>>
    /\ DOMAIN scheduler # {}
    /\ TIMEZONE_AWAIT_USERS # {}

\* C9: a text message of a user outside the pending set sends nothing,
\* raises nothing, and leaves the registry with every field of every record,
\* the pending set and the scheduler's jobs as they were.
C9_TextIgnored ==
    [][\A u \in PairUsers :
          (last'.op = "text" /\ last'.user = u /\ u \notin TIMEZONE_AWAIT_USERS)
          => /\ last'.msgs = <<>>
             /\ last'.gen = <<>>
             /\ ~last'.exc
             /\ USER_SETTINGS' = USER_SETTINGS
             /\ TIMEZONE_AWAIT_USERS' = TIMEZONE_AWAIT_USERS
             /\ scheduler' = scheduler]_vars

\* C9 witness: ignored text of a registered user with scheduled jobs while
\* the other user is typing a timezone.
C9_Witness ==
    /\ last.op = "text"
    /\ last.msgs = <<>>
    /\ last.user \in DOMAIN USER_SETTINGS
    /\ last.user \notin TIMEZONE_AWAIT_USERS
    /\ TIMEZONE_AWAIT_USERS # {}
    /\ USER_SETTINGS[last.user].job_ids # EmptyDict

\* The text is the name z, possibly with blanks before and after it.
IsPadded(text, z) ==
    \E i \in 1..Len(text) :
        /\ text[i] = z
        /\ \A j \in 1..Len(text) : j # i => text[j] = " "

\* C10: for a pending user with a record, a text that is a name of the
\* timezone database (blanks around it aside) sets timezone to that name,
\* takes the user out of the pending set and sends the knowledge-level
\* prompt; any other text leaves the user pending and the record as it was
\* and sends the retry request.
C10_PendingText ==
    [][\A u \in Users :
          (/\ last'.op = "text"
           /\ last'.user = u
           /\ u \in TIMEZONE_AWAIT_USERS
           /\ u \in DOMAIN USER_SETTINGS)
          => IF \E z \in TZDatabase : IsPadded(last'.text, z)
             THEN /\ \E z \in TZDatabase :
                        /\ IsPadded(last'.text, z)
                        /\ USER_SETTINGS' = [USER_SETTINGS EXCEPT ![u].timezone = z]
                  /\ TIMEZONE_AWAIT_USERS' = TIMEZONE_AWAIT_USERS \ {u}
                  /\ Len(last'.msgs) = 1
                  /\ IsLevelPrompt(last'.msgs[1], USER_SETTINGS[u])
             ELSE /\ TIMEZONE_AWAIT_USERS' = TIMEZONE_AWAIT_USERS
                  /\ USER_SETTINGS' = USER_SETTINGS
                  /\ last'.msgs = <<[kind |-> "tz_retry",
                                     lang |-> USER_SETTINGS[u].language]>>]_vars

\* C10 witness: a name of the database typed with blanks around it by a
\* pending user writing English: the timezone is set, the user is no longer
\* pending, the level prompt is sent.
C10_Witness ==
    /\ last.op = "text"
    /\ last.text = <<" ", "Asia/Jerusalem">>
    /\ last.msgs = <<[kind |-> "level_prompt_after_text", lang |-> "en"]>>
    /\ USER_SETTINGS[last.user].timezone = "Asia/Jerusalem"
    /\ last.user \notin TIMEZONE_AWAIT_USERS

\* The hour of the slot named t, (12 for anytime and any other name).
SlotHour(t) ==
    CASE t = "morning" -> 9
      [] t = "day" -> 13
      [] t = "evening" -> 20
      [] OTHER -> 12

\* C11: a style_* tap whose scheduling succeeded adds exactly three jobs to
\* the scheduler, recorded under sunday, midweek and friday: day sun bound to
\* the Sunday delivery, wed to the midweek delivery, fri to the Friday
\* delivery, each with the user's id, all at the hour of the user's
\* send_time (9, 13, 20, and 12 for anytime), minute 0, in the user's
\* timezone; a send_time outside the enum maps to (12, 0).
C11_ThreeWeeklyJobs ==
    [][StyleScheduled(OnboardingUser, last')
       => LET before == RecordOf(OnboardingUser)
              ids == USER_SETTINGS'[OnboardingUser].job_ids
              added == DOMAIN scheduler' \ DOMAIN scheduler
              at(func, day) ==
                  [func |-> func, user |-> OnboardingUser, day_of_week |-> day,
                   hour |-> SlotHour(before.send_time), minute |-> 0,
                   timezone |-> before.timezone]
          IN  /\ Cardinality(added) = 3
              /\ DOMAIN ids = {"sunday", "midweek", "friday"}
              /\ added = {ids[k] : k \in DOMAIN ids}
              /\ scheduler'[ids["sunday"]] = at("send_sunday_parsha_for_user", "sun")
              /\ scheduler'[ids["midweek"]] = at("send_midweek_detail_for_user", "wed")
              /\ scheduler'[ids["friday"]] = at("send_friday_toast_for_user", "fri")
              /\ map_send_time_to_hour_minute("weekend") = <<12, 0>>]_vars

\* C11 witness: the evening slot in Europe/Berlin was scheduled: the Friday
\* job fires at 20:00 Berlin time.
C11_Witness ==
    /\ StyleScheduled(OnboardingUser, last)
    /\ USER_SETTINGS[OnboardingUser].send_time = "evening"
    /\ \E j \in DOMAIN scheduler :
          /\ scheduler[j].day_of_week = "fri"
          /\ scheduler[j].hour = 20
          /\ scheduler[j].timezone = "Europe/Berlin"

\* C12: whenever a handler or delivery function made a generation call or a
\* send/edit call, no exception left it: a failure of such a call ends
\* logged and dropped or in an apology.
C12_NoFailureEscapes ==
    (last.msgs # <<>> \/ last.gen # <<>>) => ~last.exc

\* A job of the user and weekday of delivery event ev is in job store sched.
JobStillScheduled(ev, sched) ==
    \E j \in DOMAIN sched :
        sched[j].user = ev.user /\ sched[j].day_of_week = ev.data.rest

\* C13: a delivery function called for a user without a record makes no
\* generation call and sends nothing; a fired delivery never raises and
\* leaves the registry (settings and job_ids), the pending set and the
\* scheduler's jobs as they were, so its job stays scheduled; when its
\* generation failed it made that one call and sent nothing, when its send
\* failed it made that one send, and nothing more either way.
C13_DeliveryFailureDropped ==
    [][/\ \A u \in {"u1", "u2"} \ DOMAIN USER_SETTINGS :
             \A ev \in {send_sunday_parsha_for_user(u, TRUE, TRUE),
                         send_midweek_detail_for_user(u, TRUE, TRUE),
                         send_friday_toast_for_user(u, TRUE, TRUE)} :
                 ev.msgs = <<>> /\ ev.gen = <<>> /\ ~ev.exc /\ ~ev.logged
       /\ last'.op = "delivery"
             => /\ USER_SETTINGS' = USER_SETTINGS
                /\ TIMEZONE_AWAIT_USERS' = TIMEZONE_AWAIT_USERS
                /\ scheduler' = scheduler
                /\ JobStillScheduled(last', scheduler')
                /\ ~last'.exc
                /\ Len(last'.gen) = 1
                /\ last'.logged
                      => IF last'.gen[1].ok
                         THEN last'.msgs = <<[kind |-> "generated",
                                              lang |-> USER_SETTINGS[last'.user].language]>>
                         ELSE last'.msgs = <<>>]_vars

\* C13 witness: the Friday delivery of an onboarded user failed at the send;
\* the failure was logged and the three jobs of the record are scheduled.
C13_Witness ==
    /\ last.op = "delivery" /\ last.data.rest = "fri"
    /\ last.logged /\ last.gen[1].ok /\ Len(last.msgs) = 1
    /\ DOMAIN USER_SETTINGS[last.user].job_ids = {"sunday", "midweek", "friday"}
    /\ \A k \in DOMAIN USER_SETTINGS[last.user].job_ids :
          USER_SETTINGS[last.user].job_ids[k] \in DOMAIN scheduler

\* The jobs of the job store that the record of their user does not name.
Orphans ==
    {j \in DOMAIN scheduler :
        j \notin Range(RecordOf(scheduler[j].user).job_ids)}

\* C14: /start leaves the scheduler's jobs as they were; a job no record
\* names is never removed or changed by any later step; and a style_* tap
\* that schedules from a record with empty job_ids keeps every job of the
\* scheduler and adds three for the user.
C14_StartOrphansJobs ==
    [][/\ last'.op = "start" => scheduler' = scheduler
       /\ \A j \in Orphans : j \in DOMAIN scheduler' /\ scheduler'[j] = scheduler[j]
       /\ \A u \in Users :
             (StyleScheduled(u, last') /\ RecordOf(u).job_ids = EmptyDict)
             => /\ \A j \in DOMAIN scheduler :
                      j \in DOMAIN scheduler' /\ scheduler'[j] = scheduler[j]
                /\ Cardinality(JobsOf(u, scheduler')) =
                      Cardinality(JobsOf(u, scheduler)) + 3]_vars

\* C14 witness: /start, a completed onboarding, /start and a second
\* completed onboarding: six jobs of the user are active, three of them
\* named by no record.
C14_Witness ==
    /\ StyleScheduled("u1", last)
    /\ Cardinality(JobsOf("u1", scheduler)) = 6
    /\ Cardinality(Orphans) = 3
    /\ "u1" \in issued_start

\* The order in which the prompts offer the keyboards.
StepOrder == <<"lang", "time", "tz", "level", "style">>

\* C15: the steps handled for a user since their last /start are, in
\* order, language, delivery time, timezone, level, style: the i-th tap
\* handled is a tap of the i-th keyboard, so no level or style step comes
\* before the language, delivery-time and timezone steps.
C15_StepsInOrder ==
    /\ Len(taps) <= Len(StepOrder)
    /\ \A i \in 1..Len(taps) : taps[i].prefix = StepOrder[i]

\* The five fields onboarding sets.
Choices(settings) ==
    <<settings.language, settings.send_time, settings.timezone,
      settings.level, settings.style>>

\* C16: once a style_* tap of a user has scheduled successfully (the record
\* holds its job ids), no step other than a /start of that user changes the
\* user's language, send_time, timezone, level or style.
C16_FrozenAfterOnboarding ==
    [][\A u \in DOMAIN USER_SETTINGS :
          (/\ USER_SETTINGS[u].job_ids # EmptyDict
           /\ ~(last'.op = "start" /\ last'.user = u))
          => Choices(USER_SETTINGS'[u]) = Choices(USER_SETTINGS[u])]_vars

\* C17: a user enters the pending-timezone set only in a handled tz_custom
\* tap of theirs, and leaves it only in a text message of theirs that is a
\* name of the timezone database (blanks around it aside) or that finds no
\* record of theirs; /start, /help, /parsha, every tap and every delivery
\* keep every pending user pending.
C17_PendingSetMembership ==
    [][/\ \A u \in TIMEZONE_AWAIT_USERS' \ TIMEZONE_AWAIT_USERS :
             /\ last'.op = "button" /\ last'.user = u
             /\ last'.data = [prefix |-> "tz", rest |-> "custom"]
       /\ \A u \in TIMEZONE_AWAIT_USERS \ TIMEZONE_AWAIT_USERS' :
             /\ last'.op = "text" /\ last'.user = u
             /\ \/ u \notin DOMAIN USER_SETTINGS
                \/ \E z \in TZDatabase : IsPadded(last'.text, z)
       /\ last'.op \in {"start", "help", "parsha", "button", "delivery"}
             => TIMEZONE_AWAIT_USERS \subseteq TIMEZONE_AWAIT_USERS']_vars

\* C17 witness: /start handled for a user who is pending and whose earlier
\* onboarding left jobs in the scheduler: the user is still pending.
C17_Witness ==
    /\ last.op = "start"
    /\ last.user \in TIMEZONE_AWAIT_USERS
    /\ JobsOf(last.user, scheduler) # {}

\* C18: after a style_* tap whose scheduling succeeded and whose
\* onboarding_now generation raised, or whose edit showing the generated
\* text raised, the last message is the generation-failure apology, job_ids
\* holds exactly sunday, midweek, friday, and the three jobs they name are
\* in the scheduler, all for this user.
C18_GenerationFailureKeepsSchedule ==
    \A u \in Users :
        (/\ StyleScheduled(u, last)
         /\ ~last.gen[1].ok \/ Len(last.msgs) = 2)
        => LET ids == USER_SETTINGS[u].job_ids
           IN  /\ last.msgs[Len(last.msgs)] = [kind |-> "gen_apology", lang |-> "ru"]
               /\ DOMAIN ids = {"sunday", "midweek", "friday"}
               /\ Cardinality({ids[k] : k \in DOMAIN ids}) = 3
               /\ \A k \in DOMAIN ids :
                     ids[k] \in DOMAIN scheduler /\ scheduler[ids[k]].user = u
               /\ {scheduler[ids[k]].day_of_week : k \in DOMAIN ids} =
                     {"sun", "wed", "fri"}

\* C18 witness: the generation of the welcome text raised after a second
\* successful scheduling; the apology is the only message and jobs 4, 5, 6
\* are active.
C18_Witness ==
    /\ StyleScheduled("u1", last)
    /\ ~last.gen[1].ok
    /\ last.msgs = <<[kind |-> "gen_apology", lang |-> "ru"]>>
    /\ {USER_SETTINGS["u1"].job_ids[k] : k \in DOMAIN USER_SETTINGS["u1"].job_ids}
          = {4, 5, 6}
    /\ {4, 5, 6} \subseteq DOMAIN scheduler

\* The modes build_user_prompt has a branch for.
NamedModes == {"sunday_main", "midweek_detail", "friday_toast", "onboarding_now"}

DeliveryWillReturn(u, d) ==
    \E r \in running :
        /\ r.op = "delivery" /\ r.user = u /\ r.day = d
        /\ r.gen_fate = "returns" /\ r.send_fate = "returns"

\* The delivery of weekday d to user u has ended with its message sent.
DeliverySent(u, d) ==
    /\ last.op = "delivery" /\ last.user = u /\ last.data.rest = d
    /\ Len(last.msgs) = 1 /\ last.msgs[1].kind = "generated"
    /\ ~last.logged /\ ~last.exc

\* C20: under a fair event loop, a delivery in flight for a user whose own
\* generation and send calls return eventually ends with its message sent,
\* whatever routines of other users are suspended at calls that fail or
\* never return.
C20_DeliveryNotStalled ==
    \A u \in {"u1", "u2"} : \A d \in {"sun", "wed", "fri"} :
        DeliveryWillReturn(u, d) ~> DeliverySent(u, d)

\* C20 witness: the Friday delivery to u2 has ended with its message sent
\* while /parsha of u1 is suspended at a generation call that never
\* returns.
C20_Witness ==
    /\ DeliverySent("u2", "fri")
    /\ \E r \in running :
          /\ r.op = "parsha" /\ r.user = "u1"
          /\ r.pc = "generate" /\ r.gen_fate = "hangs"

\* C21: in every state, the job_ids of every registered user is empty or
\* holds exactly the keys sunday, midweek, friday with three distinct job
\* ids, each of a job in the scheduler that targets this user; and no job
\* id is in the job_ids of two users.
C21_JobIdsNameActiveJobs ==
    /\ \A u \in DOMAIN USER_SETTINGS :
          LET ids == USER_SETTINGS[u].job_ids
          IN  \/ DOMAIN ids = {}
              \/ /\ DOMAIN ids = {"sunday", "midweek", "friday"}
                 /\ ids["sunday"] # ids["midweek"]
                 /\ ids["sunday"] # ids["friday"]
                 /\ ids["midweek"] # ids["friday"]
                 /\ \A k \in DOMAIN ids :
                       /\ ids[k] \in DOMAIN scheduler
                       /\ scheduler[ids[k]].user = u
    /\ \A u \in DOMAIN USER_SETTINGS : \A v \in DOMAIN USER_SETTINGS \ {u} :
          {USER_SETTINGS[u].job_ids[k] : k \in DOMAIN USER_SETTINGS[u].job_ids}
            \cap {USER_SETTINGS[v].job_ids[k] : k \in DOMAIN USER_SETTINGS[v].job_ids}
          = {}

\* C21 witness: both users have onboarded; each record names three jobs and
\* the six jobs are in the scheduler.
C21_Witness ==
    /\ DOMAIN USER_SETTINGS = {"u1", "u2"}
    /\ DOMAIN USER_SETTINGS["u1"].job_ids = {"sunday", "midweek", "friday"}
    /\ DOMAIN USER_SETTINGS["u2"].job_ids = {"sunday", "midweek", "friday"}
    /\ DOMAIN scheduler = 1..6

\* C22: in every state every user of the pending-timezone set has a record
\* in the registry, and no text message is answered by the missing-settings
\* branch of timezone_text_handler (the request to run /start first).
C22_PendingHaveRecords ==
    /\ [](TIMEZONE_AWAIT_USERS \subseteq DOMAIN USER_SETTINGS)
    /\ [][last'.op = "text"
             => \A i \in 1..Len(last'.msgs) :
                   last'.msgs[i].kind # "need_start_text"]_vars

\* C22 witness: u1, who never sent /start, tapped tz_custom and is pending
\* with a record; a text of u1 that is no timezone name was answered by the
\* retry request.
C22_Witness ==
    /\ "u1" \in TIMEZONE_AWAIT_USERS
    /\ "u1" \in tapped_absent \ issued_start
    /\ "u1" \in DOMAIN USER_SETTINGS
    /\ last.op = "text" /\ last.user = "u1"
    /\ last.msgs = <<[kind |-> "tz_retry", lang |-> "ru"]>>

\* C23: in every state the timezone of every registered user is a name of
\* the timezone database, and a style_* tap that schedules leaves the
\* timezone of the record as it was (the fallback of
\* schedule_jobs_for_user does not fire) and gives the jobs that timezone.
C23_TimezoneAlwaysValid ==
    /\ [](\A u \in DOMAIN USER_SETTINGS :
            USER_SETTINGS[u].timezone \in
                {"Asia/Jerusalem", "Europe/Moscow", "Europe/Berlin", "Asia/Dubai",
                 "America/New_York"})
    /\ [][\A u \in Users :
             (last'.op = "button" /\ last'.user = u /\ last'.data.prefix = "style")
             => /\ USER_SETTINGS'[u].timezone = RecordOf(u).timezone
                /\ \A j \in DOMAIN scheduler' \ DOMAIN scheduler :
                      scheduler'[j].timezone = RecordOf(u).timezone]_vars

\* C23 witness: a style tap of a user whose timezone is Asia/Jerusalem has
\* scheduled, and every job in the scheduler runs in Asia/Jerusalem.
C23_Witness ==
    /\ StyleScheduled("u1", last)
    /\ "u1" \notin TIMEZONE_AWAIT_USERS
    /\ USER_SETTINGS["u1"].timezone = "Asia/Jerusalem"
    /\ \A j \in DOMAIN scheduler : scheduler[j].timezone = "Asia/Jerusalem"
    /\ DOMAIN scheduler # {}

\* C24: a step handled for user A (a command, a tap, a text message or a
\* delivery of A) leaves, for every other user B, B's record (its presence
\* and every field), B's membership in the pending-timezone set, and the
\* jobs of the scheduler that target B as they were.
C24_OtherUsersUntouched ==
    [][\A B \in {"u1", "u2"} \ {last'.user} :
          /\ (B \in DOMAIN USER_SETTINGS') = (B \in DOMAIN USER_SETTINGS)
          /\ B \in DOMAIN USER_SETTINGS => USER_SETTINGS'[B] = USER_SETTINGS[B]
          /\ (B \in TIMEZONE_AWAIT_USERS') = (B \in TIMEZONE_AWAIT_USERS)
          /\ JobsOf(B, scheduler') = JobsOf(B, scheduler)
          /\ \A j \in JobsOf(B, scheduler) : scheduler'[j] = scheduler[j]]_vars

\* C24 witness: after both users onboarded, a style tap of u1 whose
\* scheduling raised has cancelled u1's jobs; u2 is pending and its three
\* jobs are in the scheduler.
C24_Witness ==
    /\ last.op = "button" /\ last.user = "u1"
    /\ last.msgs = <<[kind |-> "sched_apology", lang |-> "ru"]>>
    /\ job_seq = 6
    /\ JobsOf("u1", scheduler) = {}
    /\ Cardinality(JobsOf("u2", scheduler)) = 3
    /\ "u2" \in TIMEZONE_AWAIT_USERS
    /\ DOMAIN USER_SETTINGS["u2"].job_ids = {"sunday", "midweek", "friday"}

====
